---- MODULE Spec2Model ----
(***************************************************************************)
(* Encoders that translate trained tree regressors (one decision tree, a   *)
(* random forest, a gradient-boosting ensemble) into constraints of an     *)
(* optimization model: gurobi_ml/sklearn/decisiontrees.py and              *)
(* gurobi_ml/sklearn/gradient_boosting_regressor.py.                       *)
(*                                                                         *)
(* Numbers.  Thresholds, inputs and eps are integers counting units of a   *)
(* fixed power-of-two grid, so that rounding to the float type can be      *)
(* computed exactly on the integer (a binary float format is scale         *)
(* invariant under powers of two).  Leaf values and outputs are integers;  *)
(* the final output of an ensemble is a rational <<num, den>>.             *)
(***************************************************************************)
EXTENDS Integers, Sequences, FiniteSets, TLC

VARIABLES
  kind,        \* which encoder the caller constructs
  predictor,   \* the trained predictor handed to the constructor
  input,       \* input[k][f]: the fixed value of input variable (k, f)
  outdim,      \* output.shape[1] of the caller's output variables
  eps,         \* self.eps of the single-tree encoders
  pc,          \* "start", "loop" (inside an ensemble's loop), "done", "raised"
  error,       \* "none", "NoModel", "AssertionError"
  treevars,    \* number of columns of the "estimator" MVar (0: not added)
  estimators,  \* len(estimators): child encoders built so far
  nodevars,    \* the "node" MVars added: records [enc, capacity]
  constrs,     \* the constraints added to the model
  outbounds    \* LB/UB set on output variables: records [enc, lb, ub]

vars == <<kind, predictor, input, outdim, eps, pc, error, treevars,
          estimators, nodevars, constrs, outbounds>>

(***************************************************************************)
(* Bounds of the checked instances.                                        *)
(***************************************************************************)
Nex == 2           \* examples (rows of the input matrix)
MaxEps == 2        \* eps ranges over 1..MaxEps grid units
MaxVal == 2        \* node values range over 0..MaxVal
MaxTrees == 2      \* ensemble members

(***************************************************************************)
(* float_type: np.float32 by default, a binary format with a 24 bit        *)
(* significand, round to nearest, ties to even.                            *)
(***************************************************************************)
MantBits == 24

ThrBase == 2^MantBits

RECURSIVE Ulp(_, _)
Ulp(m, p) == IF m < ThrBase * p THEN p ELSE Ulp(m, 2 * p)

float_type(t) ==
  LET m  == IF t < 0 THEN -t ELSE t
      p  == Ulp(m, 1)
      q  == m \div p
      r  == m % p
      up == (2 * r > p) \/ (2 * r = p /\ q % 2 = 1)
      rm == (IF up THEN q + 1 ELSE q) * p
  IN  IF t < 0 THEN -rm ELSE rm

(***************************************************************************)
(* Trained trees (sklearn's Tree arrays, nodes numbered in preorder from   *)
(* 0).  A shape is the preorder sequence "node is a split".                *)
(***************************************************************************)
Examples == 0 .. (Nex - 1)

Features == {0, 1}

Thresholds == {ThrBase + 1, ThrBase + 2, ThrBase + 3}

InputValues == ThrBase .. (ThrBase + 3 + MaxEps)

Values == 0 .. MaxVal

TREE_LEAF == -1

TREE_UNDEFINED == -2

Shapes ==
  { <<FALSE>>,
    <<TRUE, FALSE, FALSE>>,
    <<TRUE, FALSE, TRUE, FALSE, FALSE>>,
    <<TRUE, TRUE, FALSE, FALSE, FALSE>> }

SmallShapes == { <<FALSE>>, <<TRUE, FALSE, FALSE>> }

RECURSIVE SubtreeSize(_, _)
SubtreeSize(sh, n) ==
  IF sh[n + 1]
    THEN LET l == SubtreeSize(sh, n + 1)
         IN  1 + l + SubtreeSize(sh, n + 1 + l)
    ELSE 1

SplitNodes(sh) == { n \in 0 .. (Len(sh) - 1) : sh[n + 1] }

MkTree(sh, th, fe, vs, nout) ==
  [ capacity       |-> Len(sh),
    children_left  |-> [n \in 0 .. (Len(sh) - 1) |->
                          IF sh[n + 1] THEN n + 1 ELSE TREE_LEAF],
    children_right |-> [n \in 0 .. (Len(sh) - 1) |->
                          IF sh[n + 1] THEN n + 1 + SubtreeSize(sh, n + 1)
                                       ELSE TREE_LEAF],
    feature        |-> [n \in 0 .. (Len(sh) - 1) |->
                          IF sh[n + 1] THEN fe[n] ELSE TREE_UNDEFINED],
    threshold      |-> [n \in 0 .. (Len(sh) - 1) |->
                          IF sh[n + 1] THEN th[n] ELSE TREE_UNDEFINED],
    value          |-> [n \in 0 .. (Len(sh) - 1) |-> (vs + n) % (MaxVal + 1)],
    n_outputs_     |-> nout ]

TreesOf(shapes, thresholds, features, nouts) ==
  UNION { { MkTree(sh, th, fe, vs, nout) :
              th \in [SplitNodes(sh) -> thresholds],
              fe \in [SplitNodes(sh) -> features],
              vs \in Values, nout \in nouts } : sh \in shapes }

\* Every example's row is the first row shifted by the example's index.
InputMatrices ==
  { [k \in Examples |-> [f \in Features |-> x[f] + k]] :
      x \in [Features -> InputValues] }

(***************************************************************************)
(* Constraints of the optimization model.                                  *)
(***************************************************************************)
Constr(kd, e, k, n, a, b, rhs, ls) ==
  [kind |-> kd, enc |-> e, k |-> k, n |-> n, a |-> a, b |-> b,
   rhs |-> rhs, leafs |-> ls]

Nodes(tree) == 0 .. (tree.capacity - 1)

notleafs(tree) == { n \in Nodes(tree) : tree.children_left[n] >= 0 }

leafs(tree) == { n \in Nodes(tree) : tree.children_left[n] < 0 }

\* Faulty variant: the third bulk inequality (parent <= left + right) is left out.
BulkConstrsNoUpper(e, tree) ==
  UNION { { Constr("ge", e, k, n, tree.children_left[n], 0, 0, {}),
            Constr("ge", e, k, n, tree.children_right[n], 0, 0, {}),
            Constr("at_most_one", e, k, 0, tree.children_left[n],
                   tree.children_right[n], 0, {}) } :
          k \in Examples, n \in notleafs(tree) }

\* nodes[:, notleafs] >= nodes[:, children_left[notleafs]] and its three
\* companions, one row per example.
BulkConstrs(e, tree) ==
  UNION { { Constr("ge", e, k, n, tree.children_left[n], 0, 0, {}),
            Constr("ge", e, k, n, tree.children_right[n], 0, 0, {}),
            Constr("le_sum", e, k, n, tree.children_left[n],
                   tree.children_right[n], 0, {}),
            Constr("at_most_one", e, k, 0, tree.children_left[n],
                   tree.children_right[n], 0, {}) } :
          k \in Examples, n \in notleafs(tree) }

\* The loop over range(tree.capacity): two indicators per split node, one
\* per leaf.  scale is overwritten by 1 before it is used (1 / threshold of
\* a numpy float is inf at 0 and does not raise).  threshold is the node's
\* threshold rounded to float_type; threshold + eps is the sum of a numpy
\* scalar and a Python float, computed in double precision, modelled as
\* exact.
SplitConstrs(e, tree, epsv) ==
  UNION { LET left      == tree.children_left[node]
              right     == tree.children_right[node]
              threshold == float_type(tree.threshold[node])
              scale     == 1
          IN  IF left >= 0
                THEN { Constr("ind_le", e, k, left, tree.feature[node], 0,
                              scale * threshold, {}),
                       Constr("ind_ge", e, k, right, tree.feature[node], 0,
                              scale * threshold + epsv, {}) }
                ELSE { Constr("ind_out", e, k, node, 0, 0,
                              tree.value[node], {}) } :
          k \in Examples, node \in Nodes(tree) }

\* Faulty variant: the leaf sum is constrained for the first example only.
LeafSumConstrsFirstRow(e, tree) ==
  { Constr("leaf_sum", e, 0, 0, 0, 0, 1, leafs(tree)) }

\* nodes[:, leafs].sum(axis=1) == 1
LeafSumConstrs(e, tree) ==
  { Constr("leaf_sum", e, k, 0, 0, 0, 1, leafs(tree)) : k \in Examples }

mip_model_constrs(e, tree, epsv) ==
  BulkConstrs(e, tree) \cup SplitConstrs(e, tree, epsv)
    \cup LeafSumConstrs(e, tree)

SetMin(S) == CHOOSE x \in S : \A y \in S : x <= y

SetMax(S) == CHOOSE x \in S : \A y \in S : x >= y

\* Faulty variant: the minimum is taken over the leaves' values only.
ValueMinLeafs(tree) == SetMin({ tree.value[n] : n \in leafs(tree) })

\* np.min(tree.value), np.max(tree.value): over the whole value array.
ValueMin(tree) == SetMin({ tree.value[n] : n \in Nodes(tree) })

ValueMax(tree) == SetMax({ tree.value[n] : n \in Nodes(tree) })

(***************************************************************************)
(* DecisionTreeRegressorConstr(model, tree, _input, output): __init__      *)
(* raises NoModel before anything is added unless n_outputs_ is 1;         *)
(* _mip_model asserts the output's width, then adds the node variables,    *)
(* the constraints and the output bounds.  cols is output.shape[1].        *)
(***************************************************************************)
TreeError(tree, cols) ==
  IF tree.n_outputs_ # 1 THEN "NoModel"
  ELSE IF cols # tree.n_outputs_ THEN "AssertionError"
  ELSE "none"

TreeNodeVars(e, tree, cols) ==
  IF TreeError(tree, cols) = "none"
    THEN { [enc |-> e, capacity |-> tree.capacity] } ELSE {}

\* Faulty variant: the constraints are added before the output dimension is checked.
TreeConstrsUnchecked(e, tree, cols, epsv) == mip_model_constrs(e, tree, epsv)

TreeConstrs(e, tree, cols, epsv) ==
  IF TreeError(tree, cols) = "none"
    THEN mip_model_constrs(e, tree, epsv) ELSE {}

TreeBounds(e, tree, cols) ==
  IF TreeError(tree, cols) = "none"
    THEN { [enc |-> e, lb |-> ValueMin(tree), ub |-> ValueMax(tree)] }
    ELSE {}

\* add_decision_tree_regressor_constr(grbmodel, tree, input_vars, output_vars)
DecisionTreeRegressorConstr ==
  /\ pc = "start"
  /\ kind = "tree"
  /\ error' = TreeError(predictor, outdim)
  /\ pc' = IF error' = "none" THEN "done" ELSE "raised"
  /\ nodevars' = nodevars \cup TreeNodeVars(0, predictor, outdim)
  /\ constrs' = constrs \cup TreeConstrs(0, predictor, outdim, eps)
  /\ outbounds' = outbounds \cup TreeBounds(0, predictor, outdim)
  /\ UNCHANGED <<kind, predictor, input, outdim, eps, treevars, estimators>>

(***************************************************************************)
(* Solutions of the model.  The variables of one single-tree encoder (its  *)
(* node variables and its output) occur in no other encoder's constraints, *)
(* so the solutions are computed per encoder and per example.              *)
(***************************************************************************)
OutDom == (0 - 1) .. (MaxVal + 1)

NodeDomIn(nv, e) ==
  UNION { 0 .. (v.capacity - 1) : v \in { w \in nv : w.enc = e } }

Ones(S, active) == Cardinality({ n \in S : active[n] = 1 })

Sat(c, s, k) ==
  CASE c.kind = "ge"          -> s.active[c.n] >= s.active[c.a]
    [] c.kind = "le_sum"      -> s.active[c.n] <= s.active[c.b] + s.active[c.a]
    [] c.kind = "at_most_one" -> s.active[c.b] + s.active[c.a] <= 1
    [] c.kind = "ind_le"      -> (s.active[c.n] = 1) => (input[k][c.a] <= c.rhs)
    [] c.kind = "ind_ge"      -> (s.active[c.n] = 1) => (input[k][c.a] >= c.rhs)
    [] c.kind = "ind_out"     -> (s.active[c.n] = 1) => (s.out = c.rhs)
    [] c.kind = "leaf_sum"    -> Ones(c.leafs, s.active) = c.rhs

InBounds(ob, e, s) ==
  \A b \in ob : b.enc = e => (b.lb <= s.out /\ s.out <= b.ub)

TreeKinds ==
  {"ge", "le_sum", "at_most_one", "ind_le", "ind_ge", "ind_out", "leaf_sum"}

BulkKinds == {"ge", "le_sum", "at_most_one"}

\* The assignments of encoder e's variables (node variables nv, output
\* bounds ob), example k, that satisfy the constraints of cs of the given
\* kinds.
SolutionsIn(cs, nv, ob, e, k, kinds) ==
  LET mine == { c \in cs : c.enc = e /\ c.k = k /\ c.kind \in kinds }
      bnds == { b \in ob : b.enc = e }
  IN  { s \in [active : [NodeDomIn(nv, e) -> {0, 1}], out : OutDom] :
          /\ InBounds(bnds, e, s)
          /\ \A c \in mine : Sat(c, s, k) }

\* Solutions of the model as built so far.
Solutions(e, k) == SolutionsIn(constrs, nodevars, outbounds, e, k, TreeKinds)

\* Solutions of the four bulk inequalities alone (no bound, no indicator).
BulkSolutions(e, k) == SolutionsIn(constrs, nodevars, {}, e, k, BulkKinds)

(***************************************************************************)
(* Direct evaluation of a tree: from the root, to the left child when      *)
(* x[feature] <= threshold, otherwise to the right child.                  *)
(***************************************************************************)
RECURSIVE Traverse(_, _, _)
Traverse(tree, x, n) ==
  IF tree.children_left[n] < 0 THEN n
  ELSE IF x[tree.feature[n]] <= tree.threshold[n]
         THEN Traverse(tree, x, tree.children_left[n])
         ELSE Traverse(tree, x, tree.children_right[n])

RECURSIVE Path(_, _, _)
Path(tree, x, n) ==
  IF tree.children_left[n] < 0 THEN {n}
  ELSE IF x[tree.feature[n]] <= tree.threshold[n]
         THEN {n} \cup Path(tree, x, tree.children_left[n])
         ELSE {n} \cup Path(tree, x, tree.children_right[n])

Predict(tree, x) == tree.value[Traverse(tree, x, 0)]

(***************************************************************************)
(* Specification of the single-tree encoder alone.                         *)
(***************************************************************************)
InitModel ==
  /\ pc = "start"
  /\ error = "none"
  /\ treevars = 0
  /\ estimators = 0
  /\ nodevars = {}
  /\ constrs = {}
  /\ outbounds = {}

InitTree ==
  /\ kind = "tree"
  /\ predictor \in TreesOf(Shapes, Thresholds, Features, {1})
  /\ input \in InputMatrices
  /\ outdim = 1
  /\ eps \in 1 .. MaxEps
  /\ InitModel

NextTree == DecisionTreeRegressorConstr

SpecTree == InitTree /\ [][NextTree]_vars

(***************************************************************************)
(* Ensembles.  A child single-tree encoder i writes to column i of the     *)
(* "estimator" MVar; its output has one column.                            *)
(***************************************************************************)
Columns == 0 .. (treevars - 1)

ChildStep(i, tree) ==
  /\ error' = TreeError(tree, 1)
  /\ pc' = IF error' = "none" THEN "loop" ELSE "raised"
  /\ estimators' = IF error' = "none" THEN estimators + 1 ELSE estimators
  /\ nodevars' = nodevars \cup TreeNodeVars(i, tree, 1)
  /\ constrs' = constrs \cup TreeConstrs(i, tree, 1, eps)
  /\ outbounds' = outbounds \cup TreeBounds(i, tree, 1)

\* The child encoder of gradient_boosting_regressor.py comes from the module
\* decision_tree_regressor; it is taken to be the single-tree encoder above.
Child2Step(i, tree) == ChildStep(i, tree)

\* RandomForestRegressorConstr.__init__, and _mip_model up to its loop.
RandomForestInit ==
  /\ pc = "start"
  /\ kind = "forest"
  /\ IF predictor.n_outputs_ # 1
       THEN error' = "NoModel" /\ pc' = "raised" /\ treevars' = treevars
       ELSE error' = error /\ pc' = "loop" /\ treevars' = predictor.n_estimators
  /\ UNCHANGED <<kind, predictor, input, outdim, eps, estimators, nodevars,
                 constrs, outbounds>>

\* One iteration of the loop: DecisionTreeRegressorConstr(model,
\* predictor.estimators_[i], _input, treevars[:, i]).
RandomForestChild ==
  /\ pc = "loop"
  /\ kind = "forest"
  /\ estimators < predictor.n_estimators
  /\ ChildStep(estimators, predictor.estimators_[estimators])
  /\ UNCHANGED <<kind, predictor, input, outdim, eps, treevars>>

\* Faulty variant: the output is constrained to the sum, not the mean.
MeanConstrsNoCount(p) ==
  { Constr("mean", 0 - 1, k, 1, 0, 0, 0, {}) : k \in Examples }

\* n_estimators * output[:, 0] == treevars.sum(axis=1)
MeanConstrs(p) ==
  { Constr("mean", 0 - 1, k, p.n_estimators, 0, 0, 0, {}) : k \in Examples }

RandomForestCombine ==
  /\ pc = "loop"
  /\ kind = "forest"
  /\ estimators = predictor.n_estimators
  /\ constrs' = constrs \cup MeanConstrs(predictor)
  /\ pc' = "done"
  /\ UNCHANGED <<kind, predictor, input, outdim, eps, error, treevars,
                 estimators, nodevars, outbounds>>

\* What a wrong output width raises: NoModel in decisiontrees.py, a failed
\* assert in gradient_boosting_regressor.py.
BoostingError(variant, cols) ==
  IF cols = 1 THEN "none"
  ELSE IF variant = "boosting" THEN "NoModel" ELSE "AssertionError"

BoostingInit(variant) ==
  /\ pc = "start"
  /\ kind = variant
  /\ error' = BoostingError(variant, outdim)
  /\ pc' = IF error' = "none" THEN "loop" ELSE "raised"
  /\ treevars' = IF error' = "none" THEN predictor.n_estimators ELSE treevars
  /\ UNCHANGED <<kind, predictor, input, outdim, eps, estimators, nodevars,
                 constrs, outbounds>>

BoostingChild(variant) ==
  /\ pc = "loop"
  /\ kind = variant
  /\ estimators < predictor.n_estimators
  /\ IF variant = "boosting"
       THEN ChildStep(estimators, predictor.estimators_[estimators])
       ELSE Child2Step(estimators, predictor.estimators_[estimators])
  /\ UNCHANGED <<kind, predictor, input, outdim, eps, treevars>>

\* Faulty variant: the initial constant is left out of the combination.
BoostConstrsNoConstant(p) ==
  { Constr("boost", 0 - 1, k, 0, p.learning_rate[1], p.learning_rate[2],
           0, {}) : k \in Examples }

\* output == learning_rate * treevars.sum(axis=1) + constant[0][0]
BoostConstrs(p) ==
  { Constr("boost", 0 - 1, k, 0, p.learning_rate[1], p.learning_rate[2],
           p.constant, {}) : k \in Examples }

BoostingCombine(variant) ==
  /\ pc = "loop"
  /\ kind = variant
  /\ estimators = predictor.n_estimators
  /\ constrs' = constrs \cup BoostConstrs(predictor)
  /\ pc' = "done"
  /\ UNCHANGED <<kind, predictor, input, outdim, eps, error, treevars,
                 estimators, nodevars, outbounds>>

\* GradientBoostingRegressorConstr of decisiontrees.py
GradientBoostingInit ==
  /\ kind = "boosting"
  /\ BoostingInit("boosting")

GradientBoostingChild ==
  /\ kind = "boosting"
  /\ BoostingChild("boosting")

GradientBoostingCombine ==
  /\ kind = "boosting"
  /\ BoostingCombine("boosting")

\* GradientBoostingRegressorConstr of gradient_boosting_regressor.py
GradientBoosting2Init ==
  /\ kind = "boosting_split"
  /\ BoostingInit("boosting_split")

GradientBoosting2Child ==
  /\ kind = "boosting_split"
  /\ BoostingChild("boosting_split")

GradientBoosting2Combine ==
  /\ kind = "boosting_split"
  /\ BoostingCombine("boosting_split")

(***************************************************************************)
(* Solutions of an ensemble's model, example k: one solution per column of *)
(* the "estimator" MVar and a value <<num, den>> of the final output.      *)
(***************************************************************************)
\* ts[i + 1] is a solution of column i's encoder.
RECURSIVE ColumnSolutions(_, _)
ColumnSolutions(n, k) ==
  IF n = 0 THEN { <<>> }
  ELSE LET prev == ColumnSolutions(n - 1, k)
           cur  == Solutions(n - 1, k)
       IN  { Append(ts, s) : ts \in prev, s \in cur }

RECURSIVE SumOuts(_, _)
SumOuts(ts, n) == IF n = 0 THEN 0 ELSE ts[n].out + SumOuts(ts, n - 1)

FinalDom ==
  { <<nu, de>> : nu \in (0 - 2) .. (2 * MaxVal * MaxTrees + 2),
                 de \in 1 .. (MaxTrees + 1) }

SatTop(c, ts, y) ==
  CASE c.kind = "mean"  -> c.n * y[1] = y[2] * SumOuts(ts, Len(ts))
    [] c.kind = "boost" ->
         c.b * y[1] = y[2] * (c.a * SumOuts(ts, Len(ts)) + c.b * c.rhs)

TopKinds == {"mean", "boost"}

EnsembleSolutions(k) ==
  LET tss  == ColumnSolutions(treevars, k)
      tops == { c \in constrs : c.kind \in TopKinds /\ c.k = k }
  IN  { s \in [trees : tss, out : FinalDom] :
          \A c \in tops : SatTop(c, s.trees, s.out) }

(***************************************************************************)
(* Specification of the three encoders.                                    *)
(***************************************************************************)
MemberTrees ==
  TreesOf({<<TRUE, FALSE, FALSE>>}, {ThrBase + 2}, {1}, {1, 2})

LearningRates == { <<1, 2>>, <<2, 1>> }

InitConstants == {0, 1}

EnsemblesOf(lrs, cs) ==
  UNION { { [n_outputs_ |-> d, n_estimators |-> n, estimators_ |-> es,
             learning_rate |-> lr, constant |-> c] :
              es \in { f \in [0 .. (n - 1) -> MemberTrees] :
                         Cardinality({ i \in 0 .. (n - 1) : f[i].n_outputs_ # 1 }) <= 1 },
              lr \in lrs, c \in cs, d \in {1, 2} } :
          n \in 1 .. MaxTrees }

EnsembleInputs ==
  { m \in InputMatrices :
      m[0][0] = ThrBase /\ m[0][1] \in (ThrBase + 2) .. (ThrBase + 4) }

Init ==
  /\ kind \in {"tree", "forest", "boosting", "boosting_split"}
  /\ \/ /\ kind = "tree"
        /\ predictor \in TreesOf(SmallShapes, {ThrBase + 2}, {1}, {1, 2})
        /\ outdim = predictor.n_outputs_
     \/ /\ kind = "forest"
        /\ predictor \in EnsemblesOf({<<1, 1>>}, {0})
        /\ outdim = predictor.n_outputs_
     \/ /\ kind \in {"boosting", "boosting_split"}
        /\ predictor \in EnsemblesOf(LearningRates, InitConstants)
        /\ outdim = predictor.n_outputs_
  /\ input \in EnsembleInputs
  /\ eps \in 1 .. MaxEps
  /\ InitModel

Next ==
  \/ DecisionTreeRegressorConstr
  \/ RandomForestInit
  \/ RandomForestChild
  \/ RandomForestCombine
  \/ GradientBoostingInit
  \/ GradientBoostingChild
  \/ GradientBoostingCombine
  \/ GradientBoosting2Init
  \/ GradientBoosting2Child
  \/ GradientBoosting2Combine

Spec == Init /\ [][Next]_vars

(***************************************************************************)
(* Properties of the single-tree encoder.                                  *)
(***************************************************************************)
Built == kind = "tree" /\ pc = "done"

\* The split nodes on the direct-traversal path whose feature value lies
\* strictly between the threshold and the threshold plus eps.
InGap(tree, x, epsv) ==
  { n \in Path(tree, x, 0) \cap notleafs(tree) :
      /\ tree.threshold[n] < x[tree.feature[n]]
      /\ x[tree.feature[n]] < tree.threshold[n] + epsv }

ActiveSet(s) == { n \in DOMAIN s.active : s.active[n] = 1 }

\* The tree with every threshold rounded to the float type.
Rounded(tree) ==
  [tree EXCEPT !.threshold = [n \in Nodes(tree) |-> float_type(tree.threshold[n])]]

\* A tree whose thresholds the float type represents exactly.
Representable(tree) == Rounded(tree) = tree

\* C1: once the single-tree encoder has run, in every solution of its
\* constraints the output of every example equals the value of the leaf that
\* direct traversal of the tree reaches on the example's inputs.
C1_RoundTrip ==
  Built =>
    \A k \in Examples : \A s \in Solutions(0, k) :
      s.out = Predict(predictor, input[k])

\* C2: once the single-tree encoder has run, every solution has exactly one
\* active leaf per example (also for a tree that is a single root leaf).
C2_OneLeaf ==
  Built =>
    \A k \in Examples : \A s \in Solutions(0, k) :
      Ones(leafs(predictor), s.active) = 1

C2_Witness ==
  /\ Built
  /\ predictor.capacity = 1
  /\ \A k \in Examples : Solutions(0, k) # {}

\* C3: the four bulk inequalities alone force, for every non-leaf node n with
\* children L and R, active[n] = max(active[L], active[R]) and
\* active[L] + active[R] <= 1: n is active iff exactly one child is.
C3_ParentIsOr ==
  Built =>
    \A k \in Examples : \A s \in BulkSolutions(0, k) :
      \A n \in notleafs(predictor) :
        LET l == s.active[predictor.children_left[n]]
            r == s.active[predictor.children_right[n]]
        IN  /\ s.active[n] = (IF l >= r THEN l ELSE r)
            /\ l + r <= 1
            /\ (s.active[n] = 1) <=> (l + r = 1)

C3_Witness ==
  /\ Built
  /\ Cardinality(notleafs(predictor)) = 2
  /\ \E s \in BulkSolutions(0, 0) : \A n \in notleafs(predictor) : s.active[n] = 1
  /\ \E s \in BulkSolutions(0, 0) : \A n \in Nodes(predictor) : s.active[n] = 0

\* C4: when an example's feature value equals the threshold of a split node,
\* no solution has the node's right child active, and a solution with the node
\* active has its left child active.
C4_Boundary ==
  Built =>
    \A k \in Examples : \A n \in notleafs(predictor) :
      input[k][predictor.feature[n]] = predictor.threshold[n] =>
        \A s \in Solutions(0, k) :
          /\ s.active[predictor.children_right[n]] = 0
          /\ (s.active[n] = 1) => (s.active[predictor.children_left[n]] = 1)

\* C8 (as stated): the output's bounds are the minimum and the maximum of the
\* values stored at the leaf nodes.
C8_LeafBounds ==
  Built =>
    \A b \in outbounds :
      /\ \A n \in leafs(predictor) : b.lb <= predictor.value[n] /\ predictor.value[n] <= b.ub
      /\ \E n \in leafs(predictor) : b.lb = predictor.value[n]
      /\ \E n \in leafs(predictor) : b.ub = predictor.value[n]

\* C8 (amended): the output's bounds are the minimum and the maximum of the
\* values stored at all nodes of the tree, leaf or not.
C8_AllNodeBounds ==
  Built =>
    /\ Cardinality(outbounds) = 1
    /\ \A b \in outbounds :
         /\ b.enc = 0
         /\ \A n \in Nodes(predictor) : b.lb <= predictor.value[n] /\ predictor.value[n] <= b.ub
         /\ \E n \in Nodes(predictor) : b.lb = predictor.value[n]
         /\ \E n \in Nodes(predictor) : b.ub = predictor.value[n]

\* A split node's value lies outside the range of the leaves' values.
C8_Witness ==
  /\ Built
  /\ \E n \in notleafs(predictor) : \A m \in leafs(predictor) :
       predictor.value[n] > predictor.value[m]

\* C10: the constraints of an example have a solution iff no split node on
\* its direct-traversal path has its feature value strictly between threshold
\* and threshold + eps, and then the active nodes of every solution are
\* exactly the nodes of that path.
C10_FeasibilityGap ==
  Built =>
    \A k \in Examples :
      /\ (Solutions(0, k) # {}) <=> (InGap(predictor, input[k], eps) = {})
      /\ \A s \in Solutions(0, k) : ActiveSet(s) = Path(predictor, input[k], 0)

(***************************************************************************)
(* What the single-tree encoder does compute: the round trip, the boundary *)
(* rule and the feasibility gap all hold of the tree with its thresholds   *)
(* rounded to the float type, hence of every tree whose thresholds the     *)
(* float type represents.                                                  *)
(***************************************************************************)
RoundedRoundTrip ==
  Built =>
    \A k \in Examples :
      /\ \A s \in Solutions(0, k) :
           /\ s.out = Predict(Rounded(predictor), input[k])
           /\ ActiveSet(s) = Path(Rounded(predictor), input[k], 0)
      /\ (Solutions(0, k) # {}) <=> (InGap(Rounded(predictor), input[k], eps) = {})

ExactRoundTrip ==
  (Built /\ Representable(predictor)) =>
    /\ C1_RoundTrip
    /\ C4_Boundary
    /\ C10_FeasibilityGap

(***************************************************************************)
(* Properties of the ensemble encoders.                                    *)
(***************************************************************************)
\* The outputs that the constraints of a single-tree encoder, built alone
\* for this tree, allow for example k.
StandaloneOuts(tree, k) ==
  { s.out : s \in SolutionsIn(mip_model_constrs(0, tree, eps),
                              { [enc |-> 0, capacity |-> tree.capacity] },
                              { [enc |-> 0, lb |-> ValueMin(tree), ub |-> ValueMax(tree)] },
                              0, k, TreeKinds) }

Members == 0 .. (predictor.n_estimators - 1)

\* The fixed inputs of example k force every member's prediction.
Forced(k) ==
  \A i \in Members : Cardinality(StandaloneOuts(predictor.estimators_[i], k)) = 1

ForcedValue(i, k) == CHOOSE v \in StandaloneOuts(predictor.estimators_[i], k) : TRUE

RECURSIVE SumForced(_, _)
SumForced(n, k) == IF n = 0 THEN 0 ELSE ForcedValue(n - 1, k) + SumForced(n - 1, k)

\* C5: once the forest encoder has run on N trees whose predictions the
\* fixed inputs force to v_1..v_N, in every solution column i of the
\* auxiliary variables is v_i and the final output is (v_1 + ... + v_N) / N.
C5_ForestMean ==
  (kind = "forest" /\ pc = "done") =>
    \A k \in Examples : Forced(k) =>
      LET v   == [i \in Members |-> ForcedValue(i, k)]
          sum == SumForced(predictor.n_estimators, k)
      IN  \A s \in EnsembleSolutions(k) :
            /\ \A i \in Members : s.trees[i + 1].out = v[i]
            /\ s.out[1] * predictor.n_estimators = s.out[2] * sum

C5_Witness ==
  /\ kind = "forest" /\ pc = "done"
  /\ predictor.n_estimators >= 2
  /\ Forced(0)
  /\ ForcedValue(0, 0) # ForcedValue(1, 0)
  /\ EnsembleSolutions(0) # {}

\* C6: once either boosting encoder has run on M stages whose predictions
\* the fixed inputs force to v_1..v_M, in every solution the final output is
\* constant + learning_rate * (v_1 + ... + v_M).
C6_BoostingSum ==
  (kind \in {"boosting", "boosting_split"} /\ pc = "done") =>
    \A k \in Examples : Forced(k) =>
      LET v   == [i \in Members |-> ForcedValue(i, k)]
          sum == SumForced(predictor.n_estimators, k)
          lr  == predictor.learning_rate
      IN  \A s \in EnsembleSolutions(k) :
            /\ \A i \in Members : s.trees[i + 1].out = v[i]
            /\ s.out[1] * lr[2] = s.out[2] * (predictor.constant * lr[2] + lr[1] * sum)

C6_Witness ==
  /\ kind = "boosting_split" /\ pc = "done"
  /\ predictor.n_estimators >= 2
  /\ predictor.constant # 0
  /\ predictor.learning_rate = <<1, 2>>
  /\ Forced(0)
  /\ SumForced(predictor.n_estimators, 0) > 0
  /\ EnsembleSolutions(0) # {}

\* C7: constructing any encoder for output dimension 2 raises NoModel, the
\* only error kind of a dimensionality violation, and adds no constraint.
C7_NoModelOnly ==
  (pc # "start" /\ outdim = 2) =>
    /\ pc = "raised"
    /\ error = "NoModel"
    /\ constrs = {}
    /\ nodevars = {}

\* The violation of C7 is confined to gradient_boosting_regressor.py.
NoModelExceptSplitVariant == kind # "boosting_split" => C7_NoModelOnly

\* Everything encoder i added, and its being all or nothing.
ChildFull(i, tree) ==
  /\ { c \in constrs : c.enc = i } = mip_model_constrs(i, tree, eps)
  /\ \E v \in nodevars : v.enc = i
  /\ \E b \in outbounds : b.enc = i

ChildNone(i) ==
  /\ { c \in constrs : c.enc = i } = {}
  /\ { v \in nodevars : v.enc = i } = {}
  /\ { b \in outbounds : b.enc = i } = {}

Combined == \E c \in constrs : c.kind \in TopKinds

====
